---- MODULE Spec2Model ----
(***************************************************************************)
(* Model of maintenance_app/synthetic_maintenance_data.py: the synthetic   *)
(* sensor-data generator (class MachineBehavior and the module-level main  *)
(* generation loop).                                                       *)
(*                                                                         *)
(* Reals are fixed-point integers.  Units:                                 *)
(*   temperature          milli-degrees Celsius   (82 C      = 82000)      *)
(*   vibration            1e-5 g                  (0.25 g    = 25000)      *)
(*   rpm                  centi-rpm               (1380 rpm  = 138000)     *)
(*   load                 centi-percent           (98 %      = 9800)       *)
(*   bearing_wear, motor_degradation, lubrication_quality                  *)
(*                        millionths              (1.0       = 1000000)    *)
(*   stress_accumulation  1e-4                    (30        = 300000)     *)
(*   risks, effectiveness, factors, random()      1e-4    (0.85 = 8500)    *)
(*   age                  centi-years             (8 years   = 800)        *)
(*   wear_resistance, maintenance_quality, quality  hundredths             *)
(* A draw of random.random() / the fraction behind a uniform draw is a     *)
(* number of 0..9999 (1e-4); a normal draw is its z-score in tenths of a   *)
(* standard deviation.                                                     *)
(***************************************************************************)
EXTENDS Integers, Sequences, FiniteSets, TLC

VARIABLES
    cfg,                        \* NUM_MACHINES, DAYS_PER_CYCLE, NUM_CYCLES
    pc,                         \* position of the main script
    machines,                   \* the list of MachineBehavior objects
    rows,                       \* the list of emitted records
    csv,                        \* the written dataset ("none" until to_csv)
    cycle, mi, day_in_cycle,    \* the three loop variables (mi: index into machines)
    current_load, sensor_readings, failure_risk,
    failure_occurred, consecutive_high_risk_days, intermittent_fault_days,
    maintained,                 \* history: apply_maintenance calls per machine
    anomalies,                  \* number of steps whose draws left their nominal values
    drawn,                      \* the random draws of the latest call of each kind
    unit                        \* scratch record of the single-call specification

vars == <<cfg, pc, machines, rows, csv, cycle, mi, day_in_cycle, current_load,
          sensor_readings, failure_risk, failure_occurred,
          consecutive_high_risk_days, intermittent_fault_days, maintained,
          anomalies, drawn, unit>>

----------------------------------------------------------------------------
(* Bounds of the model *)

\* a run simulates at most this many machine-days
MaxRecords == 8
\* at most this many steps of a run draw non-nominal random values
MaxAnomalies == 2

----------------------------------------------------------------------------
(* Arithmetic helpers *)

Min(a, b) == IF a < b THEN a ELSE b

Max(a, b) == IF a > b THEN a ELSE b

Abs(a) == IF a < 0 THEN -a ELSE a

\* Python's round(x, n): the nearest multiple of q, a tie going to the even multiple
Round(x, q) ==
    LET lo == x \div q
        r  == x % q
    IN  IF 2 * r < q THEN lo * q
        ELSE IF 2 * r > q THEN (lo + 1) * q
        ELSE IF lo % 2 = 0 THEN lo * q ELSE (lo + 1) * q

\* uniform(a, b) for the fraction u (1e-4) behind the draw: a + (b - a) * u
Uniform(a, b, u) == a + ((b - a) * u) \div 10000

\* normal(mean, sd) for the z-score z (tenths of a standard deviation)
Normal(mean, sd, z) == mean + (sd * z) \div 10

\* k * sin(2*pi*t/365) for t in 0..364, by Bhaskara's rational approximation
\* sin(x) ~ 16x(pi-x) / (5pi^2 - 4x(pi-x)) on [0, pi] (error below 0.0017)
SinScaled(k, t) ==
    LET u == 2 * t
        h == IF u <= 365 THEN u ELSE u - 365
        p == h * (365 - h)
        s == (k * 16 * p) \div (666125 - 4 * p)
    IN  IF u <= 365 THEN s ELSE -s

----------------------------------------------------------------------------
(* class MachineBehavior *)

\* __init__: d holds the fractions of the seven uniform draws
MachineBehavior(machine_id, d) ==
    [ machine_id |-> machine_id,
      age |-> Uniform(10, 800, d.age),
      quality |-> Uniform(70, 100, d.quality),
      wear_resistance |-> Uniform(50, 150, d.wear_resistance),
      bearing_wear |-> 0,
      motor_degradation |-> 0,
      thermal_stress |-> 0,
      lubrication_quality |-> 1000000,
      base_temp |-> Uniform(58000, 68000, d.base_temp),
      base_vib |-> Uniform(4000, 12000, d.base_vib),
      base_rpm |-> Uniform(142000, 148000, d.base_rpm),
      cycles_since_service |-> 0,
      total_operating_hours |-> 0,
      stress_accumulation |-> 0,
      maintenance_quality |-> Uniform(70, 100, d.maintenance_quality),
      previous_failures |-> 0,
      last_maintenance_effectiveness |-> 10000,
      \* the attribute does not exist until check_failure_risk or
      \* apply_maintenance creates it
      intermittent_fault_active |-> "unset" ]

\* generate_load_pattern(day, cycle_day): d holds the draws
\*   z: normal base load, um: monthly uniform, r1/r2: the two random() of the
\*   anomaly if/elif, us/ud: the surge and dip uniforms
generate_load_pattern(day, cycle_day, d) ==
    LET day_of_week == day % 7
        day_of_year == day % 365
        seasonal_factor == 10000 + SinScaled(1000, day_of_year)
        base0 == IF day_of_week \in {5, 6}
                 THEN Normal(5000, 500, d.z)
                 ELSE Normal(6800, 800, d.z)
        base1 == IF day % 30 < 5 THEN base0 + Uniform(1000, 2000, d.um)
                 ELSE IF day % 30 > 25 THEN base0 - Uniform(500, 1500, d.um)
                 ELSE base0
        base2 == (base1 * seasonal_factor) \div 10000
        base3 == IF d.r1 < 1000 THEN base2 + Uniform(1500, 3000, d.us)
                 ELSE IF d.r2 < 800 THEN base2 - Uniform(1000, 2500, d.ud)
                 ELSE base2
    IN  Max(3500, Min(9800, base3))

\* age_factor = min(2.0, 1.0 + (self.age / 10))
age_factor(m) == Min(20000, 10000 + m.age * 10)

\* bearing_wear_after without the min(1.0, ...) cap
bearing_wear_after_uncapped(m, sr) ==
    m.bearing_wear
      + ((sr.vibration + 2 * sr.load) * age_factor(m)) \div (m.wear_resistance * 20000)

\* BEARING WEAR MECHANISM: bearing_wear after the day
\*   rate = (vibration*0.5 + load/100*0.1) * (1/wear_resistance), times 0.001 * age_factor
bearing_wear_after(m, sr) ==
    LET inc == ((sr.vibration + 2 * sr.load) * age_factor(m))
                   \div (m.wear_resistance * 20000)
    IN  Min(1000000, m.bearing_wear + inc)

\* motor_degradation_after without the abs() around the rpm deviation
motor_degradation_after_signed(m, sr) ==
    LET rpm_variation == (500 * (sr.rpm - m.base_rpm)) \div m.base_rpm
        thermal_cycles == Max(0, sr.temperature - 65000) \div 40
    IN  Min(1000000, m.motor_degradation + rpm_variation + thermal_cycles)

\* MOTOR DEGRADATION: motor_degradation after the day
\*   (rpm_variation + thermal_cycles) * 0.0005
motor_degradation_after(m, sr) ==
    LET rpm_variation == (500 * Abs(sr.rpm - m.base_rpm)) \div m.base_rpm
        thermal_cycles == Max(0, sr.temperature - 65000) \div 40
    IN  Min(1000000, m.motor_degradation + rpm_variation + thermal_cycles)

\* lubrication_quality_after without the max(0.1, ...) floor
lubrication_quality_after_unfloored(m, sr) ==
    IF sr.temperature > 75000 THEN (m.lubrication_quality * 998) \div 1000
    ELSE m.lubrication_quality - (m.lubrication_quality * 5 + 9999) \div 10000

\* LUBRICATION DEGRADATION: lubrication_quality after the day
lubrication_quality_after(m, sr) ==
    LET degraded == IF sr.temperature > 75000
                    THEN (m.lubrication_quality * 998) \div 1000
                    ELSE m.lubrication_quality
                             - (m.lubrication_quality * 5 + 9999) \div 10000
    IN  Max(100000, degraded)

\* daily_stress = load/100*0.1 + vibration*0.5 + max(0, temp - 65)/50
daily_stress(sr) ==
    (2 * sr.load + sr.vibration) \div 20 + Max(0, sr.temperature - 65000) \div 5

\* update_degradation(sensor_readings, day_in_cycle): the machine after the call
update_degradation(m, sr, dic) ==
    [m EXCEPT
       !.bearing_wear = bearing_wear_after(m, sr),
       !.motor_degradation = motor_degradation_after(m, sr),
       !.lubrication_quality = lubrication_quality_after(m, sr),
       !.stress_accumulation = m.stress_accumulation + daily_stress(sr),
       !.total_operating_hours = m.total_operating_hours + 24]

\* x * f for a factor f in 1e-4, without leaving 32 bits (x >= 0)
Scale(x, f) == (x \div 10000) * f + ((x % 10000) * f) \div 10000

\* constrained_readings without the min(95, ...) and min(0.5, ...) caps
constrained_readings_uncapped(temperature, vibration, rpm, load) ==
    [ temperature |-> Max(40000, Round(temperature, 10)),
      vibration |-> Max(2000, Round(vibration, 10)),
      rpm |-> Max(138000, Round(rpm, 10)),
      load |-> Round(load, 10) ]

\* RETURN PHYSICALLY-CONSTRAINED SENSOR READINGS: the dictionary returned
constrained_readings(temperature, vibration, rpm, load) ==
    [ temperature |-> Max(40000, Min(95000, Round(temperature, 10))),
      vibration |-> Max(2000, Min(50000, Round(vibration, 10))),
      rpm |-> Max(138000, Round(rpm, 10)),
      load |-> Round(load, 10) ]

\* calculate_sensor_readings(day_in_cycle, current_load): d holds the draws
\*   z_rpm: rpm fluctuation; rb1..3/ub1..3: the three fault-burst random() and
\*   their uniforms; zt, zv, zr: sensor noise; rg1, rg2/ug1, ug2: the glitches
calculate_sensor_readings(m, dic, load, d) ==
    LET day_of_year == dic % 365
        seasonal_temp_effect == SinScaled(3000, day_of_year)
        temp_load_effect == (load * 8) \div 10
                              + (IF load > 7500 THEN ((load - 7500) * 15) \div 10 ELSE 0)
        temperature0 == m.base_temp + temp_load_effect
                          + (m.bearing_wear * 3) \div 1000
                          + ((1000000 - m.lubrication_quality) * 8) \div 1000
                          + seasonal_temp_effect
        vibration0 == m.base_vib + load \div 2
                        + (m.bearing_wear * 15) \div 1000
                        + m.motor_degradation \div 100
        rpm_stability == 200 + m.motor_degradation \div 2000 + m.bearing_wear \div 2500
        rpm0 == m.base_rpm + Normal(0, rpm_stability, d.z_rpm)
        rpm1 == IF load > 8000 /\ (m.motor_degradation > 300000 \/ m.bearing_wear > 400000)
                THEN rpm0 - ((load - 8000) * 4) \div 10
                ELSE rpm0
        fault == m.intermittent_fault_active = "True"
        vibration1 == IF fault /\ d.rb1 < 6000
                      THEN Scale(vibration0, Uniform(11000, 18000, d.ub1))
                      ELSE vibration0
        temperature1 == IF fault /\ d.rb2 < 4000
                        THEN temperature0 + Uniform(1000, 6000, d.ub2)
                        ELSE temperature0
        rpm2 == IF fault /\ d.rb3 < 3000
                THEN rpm1 + Uniform(-1000, 1000, d.ub3)
                ELSE rpm1
        temperature2 == temperature1 + Normal(0, 700, d.zt)
        vibration2 == vibration1 + Normal(0, 1200, d.zv)
        rpm3 == rpm2 + Normal(0, 150, d.zr)
        temperature3 == IF d.rg1 < 80 THEN temperature2 + Uniform(3000, 10000, d.ug1)
                        ELSE temperature2
        vibration3 == IF d.rg2 < 60 THEN vibration2 + Uniform(5000, 15000, d.ug2)
                      ELSE vibration2
    IN  constrained_readings(temperature3, vibration3, rpm3, load)

\* bearing_risk as the maximum over the matching branches
bearing_risk_maximum(m, sr) ==
    Max(IF sr.vibration > 18000 /\ m.bearing_wear > 500000 THEN 6000 ELSE 0,
        Max(IF sr.vibration > 25000 THEN 8000 ELSE 0,
            IF m.bearing_wear > 800000 THEN 7000 ELSE 0))

\* FAILURE MODE 1 of check_failure_risk
bearing_risk(m, sr) ==
    IF sr.vibration > 18000 /\ m.bearing_wear > 500000 THEN 6000
    ELSE IF sr.vibration > 25000 THEN 8000
    ELSE IF m.bearing_wear > 800000 THEN 7000
    ELSE 0

\* FAILURE MODE 2
motor_risk(m, sr) ==
    IF sr.temperature > 78000 /\ sr.rpm > m.base_rpm + 2000 THEN 5000
    ELSE IF sr.temperature > 82000 THEN 7000
    ELSE IF m.motor_degradation > 600000 /\ sr.temperature > 70000 THEN 4000
    ELSE 0

\* FAILURE MODE 3
lubrication_risk(m, sr) ==
    IF m.lubrication_quality < 300000 /\ sr.temperature > 70000 THEN 5000
    ELSE IF m.lubrication_quality < 100000 THEN 8000
    ELSE 0

\* FAILURE MODE 4
stress_risk(m, dic) ==
    IF m.stress_accumulation > 300000 /\ dic > 100
    THEN Min(6000, m.stress_accumulation \div 60)
    ELSE 0

\* FAILURE MODE 5
combined_risk(m, sr) ==
    LET degradation_score == m.bearing_wear + m.motor_degradation
                               + (1000000 - m.lubrication_quality)
    IN  IF degradation_score > 1200000 /\ sr.load > 7000
        THEN Min(9000, degradation_score \div 200)
        ELSE 0

\* AGE-RELATED FAILURE RISK
age_risk(m) == IF m.age > 500 THEN Min(3000, (m.age - 500) * 6) ELSE 0

age_risk_factor(m) == Min(20000, 10000 + (m.age * 100) \div 15)

\* combined_failure_risk without the "1 -": the product of the survival
\* probabilities instead of its complement
combined_failure_risk_survival(m, sr, dic) ==
    LET p1 == 10000 - bearing_risk(m, sr)
        p2 == (p1 * (10000 - motor_risk(m, sr))) \div 10000
        p3 == (p2 * (10000 - lubrication_risk(m, sr))) \div 10000
        p4 == (p3 * (10000 - stress_risk(m, dic))) \div 10000
        p5 == (p4 * (10000 - combined_risk(m, sr))) \div 10000
        p6 == (p5 * (10000 - age_risk(m))) \div 10000
    IN  (p6 * age_risk_factor(m)) \div 10000

\* 1 - prod(1 - r) over the six risks, times age_risk_factor
combined_failure_risk(m, sr, dic) ==
    LET p1 == 10000 - bearing_risk(m, sr)
        p2 == (p1 * (10000 - motor_risk(m, sr))) \div 10000
        p3 == (p2 * (10000 - lubrication_risk(m, sr))) \div 10000
        p4 == (p3 * (10000 - stress_risk(m, dic))) \div 10000
        p5 == (p4 * (10000 - combined_risk(m, sr))) \div 10000
        p6 == (p5 * (10000 - age_risk(m))) \div 10000
    IN  ((10000 - p6) * age_risk_factor(m)) \div 10000

\* critical_condition without the bearing_wear > 0.95 disjunct
critical_condition_without_wear(m, sr) ==
    \/ sr.temperature > 85000
    \/ sr.vibration > 35000
    \/ m.lubrication_quality < 50000

\* CRITICAL FAILURE CONDITIONS
critical_condition(m, sr) ==
    \/ sr.temperature > 85000
    \/ sr.vibration > 35000
    \/ m.bearing_wear > 950000
    \/ m.lubrication_quality < 50000

\* check_failure_risk that counts a certain failure in previous_failures
check_failure_risk_counting(m, sr, dic, d) ==
    LET risk0 == combined_failure_risk(m, sr, dic)
        active0 == IF m.intermittent_fault_active = "unset" THEN "False"
                   ELSE m.intermittent_fault_active
        active1 == IF risk0 > 4000 /\ active0 # "True" /\ d.ra < 3000 THEN "True"
                   ELSE active0
        risk1 == IF critical_condition(m, sr) THEN 10000 ELSE risk0
        risk2 == IF d.rf < 2 THEN 10000 ELSE risk1
    IN  [ risk |-> Min(10000, risk2),
          machine |-> [m EXCEPT !.intermittent_fault_active = active1,
                                !.previous_failures =
                                    @ + (IF risk2 >= 10000 THEN 1 ELSE 0)] ]

\* check_failure_risk(sensor_readings, day_in_cycle): the risk returned and the
\* machine after the call.  d.ra: the activation random(), d.rf: the
\* random-component-failure random()
check_failure_risk(m, sr, dic, d) ==
    LET risk0 == combined_failure_risk(m, sr, dic)
        active0 == IF m.intermittent_fault_active = "unset" THEN "False"
                   ELSE m.intermittent_fault_active
        active1 == IF risk0 > 4000 /\ active0 # "True" /\ d.ra < 3000 THEN "True"
                   ELSE active0
        risk1 == IF critical_condition(m, sr) THEN 10000 ELSE risk0
        risk2 == IF d.rf < 2 THEN 10000 ELSE risk1
    IN  [ risk |-> Min(10000, risk2),
          machine |-> [m EXCEPT !.intermittent_fault_active = active1] ]

\* apply_maintenance without the reset of intermittent_fault_active
apply_maintenance_keeping_fault(m, u) ==
    LET effectiveness == (m.maintenance_quality * Uniform(8000, 10000, u)) \div 100
    IN  [m EXCEPT
           !.last_maintenance_effectiveness = effectiveness,
           !.bearing_wear = Scale(m.bearing_wear, 2000 + (10000 - effectiveness) \div 2),
           !.motor_degradation =
               Scale(m.motor_degradation, 3000 + (10000 - effectiveness) \div 2),
           !.lubrication_quality =
               Min(1000000, m.lubrication_quality + 60 * effectiveness),
           !.stress_accumulation =
               Scale(m.stress_accumulation, 1000 + ((10000 - effectiveness) * 3) \div 10)]

\* apply_maintenance that also clears the failure history
apply_maintenance_clearing_history(m, u) ==
    LET effectiveness == (m.maintenance_quality * Uniform(8000, 10000, u)) \div 100
    IN  [m EXCEPT
           !.last_maintenance_effectiveness = effectiveness,
           !.bearing_wear = Scale(m.bearing_wear, 2000 + (10000 - effectiveness) \div 2),
           !.motor_degradation =
               Scale(m.motor_degradation, 3000 + (10000 - effectiveness) \div 2),
           !.lubrication_quality =
               Min(1000000, m.lubrication_quality + 60 * effectiveness),
           !.stress_accumulation =
               Scale(m.stress_accumulation, 1000 + ((10000 - effectiveness) * 3) \div 10),
           !.previous_failures = 0,
           !.intermittent_fault_active = "False"]

\* apply_maintenance(): u is the fraction behind random.uniform(0.8, 1.0)
apply_maintenance(m, u) ==
    LET effectiveness == (m.maintenance_quality * Uniform(8000, 10000, u)) \div 100
    IN  [m EXCEPT
           !.last_maintenance_effectiveness = effectiveness,
           !.bearing_wear = Scale(m.bearing_wear, 2000 + (10000 - effectiveness) \div 2),
           !.motor_degradation =
               Scale(m.motor_degradation, 3000 + (10000 - effectiveness) \div 2),
           !.lubrication_quality =
               Min(1000000, m.lubrication_quality + 60 * effectiveness),
           !.stress_accumulation =
               Scale(m.stress_accumulation, 1000 + ((10000 - effectiveness) * 3) \div 10),
           !.intermittent_fault_active = "False"]

----------------------------------------------------------------------------
(* The random draws a run of the main script takes.  Each step draws either *)
(* the nominal values or one of a few deviations; a run takes at most       *)
(* MaxAnomalies deviating steps.                                            *)

CreationDraws ==
    { [ age |-> a, quality |-> 5000, wear_resistance |-> 5000, base_temp |-> 9999,
        base_vib |-> 9999, base_rpm |-> 5000, maintenance_quality |-> 5000 ]
      : a \in {0, 9999} }

NominalLoad == [z |-> 0, um |-> 5000, r1 |-> 9999, us |-> 5000, r2 |-> 9999, ud |-> 5000]

LoadDraws ==
    { NominalLoad,
      [NominalLoad EXCEPT !.r1 = 0, !.us = 9999] }   \* anomaly surge

NominalSensor ==
    [ z_rpm |-> 0, rb1 |-> 9999, ub1 |-> 5000, rb2 |-> 9999, ub2 |-> 5000,
      rb3 |-> 9999, ub3 |-> 5000, zt |-> 0, zv |-> 0, zr |-> 0,
      rg1 |-> 9999, ug1 |-> 5000, rg2 |-> 9999, ug2 |-> 5000 ]

SensorDraws ==
    { NominalSensor,
      [NominalSensor EXCEPT !.rg1 = 0, !.ug1 = 9999],   \* temperature glitch
      [NominalSensor EXCEPT !.rg2 = 0, !.ug2 = 9999] }  \* vibration glitch

NominalRisk == [ra |-> 9999, rf |-> 9999]

RiskDraws == { NominalRisk, [NominalRisk EXCEPT !.ra = 0], [NominalRisk EXCEPT !.rf = 0] }

NominalRandom == 9999

RandomDraws == {0, NominalRandom}

NominalEffect == 5000

EffectDraws == {NominalEffect, 9999}

Deviation(d, nominal) == IF d = nominal THEN 0 ELSE 1

----------------------------------------------------------------------------
(* The main data generation loop *)

NoReading == [temperature |-> 0, vibration |-> 0, rpm |-> 0, load |-> 0]

NoUnit == [op |-> "none"]

NoDraws ==
    [ effect |-> NominalEffect, load |-> NominalLoad, sensor |-> NominalSensor,
      risk |-> NominalRisk, decide |-> NominalRandom ]

Weight(n) == IF n < 1 THEN 1 ELSE n

\* NUM_MACHINES, DAYS_PER_CYCLE, NUM_CYCLES: any values, positive or not, that
\* keep the run within MaxRecords machine-days
Configs ==
    { c \in [ NUM_MACHINES : -1 .. 2, DAYS_PER_CYCLE : -1 .. MaxRecords,
              NUM_CYCLES : -1 .. MaxRecords ] :
        Weight(c.NUM_MACHINES) * Weight(c.DAYS_PER_CYCLE) * Weight(c.NUM_CYCLES)
            <= MaxRecords }

Init ==
    /\ cfg \in Configs
    /\ pc = "create"
    /\ machines = << >>
    /\ rows = << >>
    /\ csv = "none"
    /\ cycle = 0
    /\ mi = 0
    /\ day_in_cycle = 0
    /\ current_load = 0
    /\ sensor_readings = NoReading
    /\ failure_risk = 0
    /\ failure_occurred = FALSE
    /\ consecutive_high_risk_days = 0
    /\ intermittent_fault_days = 0
    /\ maintained = << >>
    /\ anomalies = 0
    /\ drawn = NoDraws
    /\ unit = NoUnit

\* Advance with the two loops nested the other way round (machine-major)
Advance_machine_major(c, i) ==
    IF c < cfg.NUM_CYCLES THEN [cycle |-> c + 1, mi |-> i, pc |-> "begin"]
    ELSE IF i < Len(machines) THEN [cycle |-> 1, mi |-> i + 1, pc |-> "begin"]
    ELSE [cycle |-> c, mi |-> i, pc |-> "write"]

\* where the two outer for-loops go once machine mi is done with the cycle
Advance(c, i) ==
    IF i < Len(machines) THEN [cycle |-> c, mi |-> i + 1, pc |-> "begin"]
    ELSE IF c < cfg.NUM_CYCLES THEN [cycle |-> c + 1, mi |-> 1, pc |-> "begin"]
    ELSE [cycle |-> c, mi |-> i, pc |-> "write"]

\* rows = []; machines = [MachineBehavior(i) for i in range(1, NUM_MACHINES + 1)]
CreateMachines ==
    /\ pc = "create"
    /\ \E ds \in [1 .. cfg.NUM_MACHINES -> CreationDraws] :
           machines' = [i \in 1 .. cfg.NUM_MACHINES |-> MachineBehavior(i, ds[i])]
    /\ rows' = << >>
    /\ maintained' = [i \in 1 .. cfg.NUM_MACHINES |-> 0]
    /\ IF cfg.NUM_CYCLES >= 1 /\ cfg.NUM_MACHINES >= 1
       THEN /\ cycle' = 1 /\ mi' = 1 /\ pc' = "begin"
       ELSE /\ pc' = "write" /\ UNCHANGED <<cycle, mi>>
    /\ UNCHANGED <<cfg, csv, day_in_cycle, current_load, sensor_readings,
                   failure_risk, failure_occurred, consecutive_high_risk_days,
                   intermittent_fault_days, anomalies, drawn, unit>>

\* BeginMachineCycle without the "if cycle > 1" around apply_maintenance
BeginMachineCycle_maintaining_first_cycle ==
    /\ pc = "begin"
    /\ \E u \in EffectDraws :
         LET dev == Deviation(u, NominalEffect)
             m1 == apply_maintenance(machines[mi], u)
             m2 == [m1 EXCEPT !.cycles_since_service = m1.cycles_since_service + 1]
         IN  /\ anomalies + dev <= MaxAnomalies
             /\ anomalies' = anomalies + dev
             /\ drawn' = [drawn EXCEPT !.effect = u]
             /\ machines' = [machines EXCEPT ![mi] = m2]
             /\ maintained' = [maintained EXCEPT ![mi] = @ + 1]
    /\ failure_occurred' = FALSE
    /\ consecutive_high_risk_days' = 0
    /\ intermittent_fault_days' = 0
    /\ IF cfg.DAYS_PER_CYCLE >= 1
       THEN /\ day_in_cycle' = 1 /\ pc' = "load" /\ UNCHANGED <<cycle, mi>>
       ELSE /\ cycle' = Advance(cycle, mi).cycle
            /\ mi' = Advance(cycle, mi).mi
            /\ pc' = Advance(cycle, mi).pc
            /\ UNCHANGED day_in_cycle
    /\ UNCHANGED <<cfg, rows, csv, current_load, sensor_readings, failure_risk, unit>>

\* the head of the body of "for machine in machines": maintenance after the
\* first cycle, cycles_since_service, the cycle-level failure tracking
BeginMachineCycle ==
    /\ pc = "begin"
    /\ \E u \in EffectDraws :
         LET dev == IF cycle > 1 THEN Deviation(u, NominalEffect) ELSE 0
             m0 == machines[mi]
             m1 == IF cycle > 1 THEN apply_maintenance(m0, u) ELSE m0
             m2 == [m1 EXCEPT !.cycles_since_service = m1.cycles_since_service + 1]
         IN  /\ cycle > 1 \/ u = NominalEffect
             /\ anomalies + dev <= MaxAnomalies
             /\ anomalies' = anomalies + dev
             /\ drawn' = [drawn EXCEPT !.effect = u]
             /\ machines' = [machines EXCEPT ![mi] = m2]
             /\ maintained' = [maintained EXCEPT ![mi] = @ + (IF cycle > 1 THEN 1 ELSE 0)]
    /\ failure_occurred' = FALSE
    /\ consecutive_high_risk_days' = 0
    /\ intermittent_fault_days' = 0
    /\ IF cfg.DAYS_PER_CYCLE >= 1
       THEN /\ day_in_cycle' = 1 /\ pc' = "load" /\ UNCHANGED <<cycle, mi>>
       ELSE /\ cycle' = Advance(cycle, mi).cycle
            /\ mi' = Advance(cycle, mi).mi
            /\ pc' = Advance(cycle, mi).pc
            /\ UNCHANGED day_in_cycle
    /\ UNCHANGED <<cfg, rows, csv, current_load, sensor_readings, failure_risk, unit>>

global_day == (cycle - 1) * cfg.DAYS_PER_CYCLE + day_in_cycle

\* current_load = machine.generate_load_pattern(global_day, day_in_cycle)
GenerateLoad ==
    /\ pc = "load"
    /\ \E d \in LoadDraws :
         /\ anomalies + Deviation(d, NominalLoad) <= MaxAnomalies
         /\ anomalies' = anomalies + Deviation(d, NominalLoad)
         /\ drawn' = [drawn EXCEPT !.load = d]
         /\ current_load' = generate_load_pattern(global_day, day_in_cycle, d)
    /\ pc' = "sensor"
    /\ UNCHANGED <<cfg, machines, rows, csv, cycle, mi, day_in_cycle, sensor_readings,
                   failure_risk, failure_occurred, consecutive_high_risk_days,
                   intermittent_fault_days, maintained, unit>>

\* the day's calls in the order update_degradation, calculate_sensor_readings:
\* the update uses the reading left by the day before and the new reading is
\* taken from the updated state
CalculateSensorReadings_after_update ==
    /\ pc = "sensor"
    /\ \E d \in SensorDraws :
         LET updated == update_degradation(machines[mi], sensor_readings, day_in_cycle)
         IN  /\ anomalies + Deviation(d, NominalSensor) <= MaxAnomalies
             /\ anomalies' = anomalies + Deviation(d, NominalSensor)
             /\ drawn' = [drawn EXCEPT !.sensor = d]
             /\ machines' = [machines EXCEPT ![mi] = updated]
             /\ sensor_readings' =
                   calculate_sensor_readings(updated, day_in_cycle, current_load, d)
    /\ pc' = "risk"
    /\ UNCHANGED <<cfg, rows, csv, cycle, mi, day_in_cycle, current_load,
                   failure_risk, failure_occurred, consecutive_high_risk_days,
                   intermittent_fault_days, maintained, unit>>

\* sensor_readings = machine.calculate_sensor_readings(day_in_cycle, current_load)
CalculateSensorReadings ==
    /\ pc = "sensor"
    /\ \E d \in SensorDraws :
         /\ anomalies + Deviation(d, NominalSensor) <= MaxAnomalies
         /\ anomalies' = anomalies + Deviation(d, NominalSensor)
         /\ drawn' = [drawn EXCEPT !.sensor = d]
         /\ sensor_readings' =
               calculate_sensor_readings(machines[mi], day_in_cycle, current_load, d)
    /\ pc' = "degrade"
    /\ UNCHANGED <<cfg, machines, rows, csv, cycle, mi, day_in_cycle, current_load,
                   failure_risk, failure_occurred, consecutive_high_risk_days,
                   intermittent_fault_days, maintained, unit>>

\* UpdateDegradation that leaves a machine alone once it has failed in the cycle
UpdateDegradation_halted_by_failure ==
    /\ pc = "degrade"
    /\ machines' = IF failure_occurred THEN machines
                   ELSE [machines EXCEPT
                           ![mi] = update_degradation(@, sensor_readings, day_in_cycle)]
    /\ pc' = "risk"
    /\ UNCHANGED <<cfg, rows, csv, cycle, mi, day_in_cycle, current_load, sensor_readings,
                   failure_risk, failure_occurred, consecutive_high_risk_days,
                   intermittent_fault_days, maintained, anomalies, drawn, unit>>

\* machine.update_degradation(sensor_readings, day_in_cycle)
UpdateDegradation ==
    /\ pc = "degrade"
    /\ machines' = [machines EXCEPT
                      ![mi] = update_degradation(@, sensor_readings, day_in_cycle)]
    /\ pc' = "risk"
    /\ UNCHANGED <<cfg, rows, csv, cycle, mi, day_in_cycle, current_load, sensor_readings,
                   failure_risk, failure_occurred, consecutive_high_risk_days,
                   intermittent_fault_days, maintained, anomalies, drawn, unit>>

\* failure_risk = machine.check_failure_risk(sensor_readings, day_in_cycle)
CheckFailureRisk ==
    /\ pc = "risk"
    /\ \E d \in RiskDraws :
         LET r == check_failure_risk(machines[mi], sensor_readings, day_in_cycle, d)
         IN  /\ anomalies + Deviation(d, NominalRisk) <= MaxAnomalies
             /\ anomalies' = anomalies + Deviation(d, NominalRisk)
             /\ drawn' = [drawn EXCEPT !.risk = d]
             /\ failure_risk' = r.risk
             /\ machines' = [machines EXCEPT ![mi] = r.machine]
    /\ pc' = "decide"
    /\ UNCHANGED <<cfg, rows, csv, cycle, mi, day_in_cycle, current_load, sensor_readings,
                   failure_occurred, consecutive_high_risk_days,
                   intermittent_fault_days, maintained, unit>>

\* effective_risk without the streak multiplier of consecutive_high_risk_days
effective_risk_without_streak(risk, high_days, fault_days) ==
    IF fault_days > 5 THEN (risk * 15) \div 10 ELSE risk

\* failure_risk * probability_multiplier for the streak counters of the day
effective_risk(risk, high_days, fault_days) ==
    LET multiplier0 == 10000 + high_days * 2000
        multiplier1 == IF fault_days > 5 THEN (multiplier0 * 15) \div 10 ELSE multiplier0
    IN  (risk * multiplier1) \div 10000

\* failure_today with the guaranteed-failure branch taken only at risk 1.0
failure_today_certain_only(occurred, eff, r) ==
    IF occurred THEN FALSE
    ELSE IF eff >= 10000 THEN TRUE
    ELSE 10 * r < eff

\* failure_today without the "if not failure_occurred" guard
failure_today_unlatched(occurred, eff, r) ==
    IF eff > 8500 THEN TRUE ELSE 10 * r < eff

\* "Determine if failure occurs today": r is the draw of random.random()
failure_today(occurred, eff, r) ==
    IF occurred THEN FALSE
    ELSE IF eff > 8500 THEN TRUE
    ELSE 10 * r < eff

\* service_flag without the "cycle > 1" test
service_flag_every_cycle(dic, c) == IF dic = 1 THEN 1 ELSE 0

\* service_flag = 1 if (day_in_cycle == 1 and cycle > 1) else 0
service_flag(dic, c) == IF dic = 1 /\ c > 1 THEN 1 ELSE 0

\* "Track failure progression patterns": consecutive_high_risk_days of the day
high_risk_days(risk, before) == IF risk > 6000 THEN before + 1 ELSE 0

\* "Track intermittent fault duration": intermittent_fault_days of the day
fault_days(m, before) ==
    IF m.intermittent_fault_active = "True" THEN before + 1 ELSE 0

\* the dictionary appended to rows
record(m, c, day, dic, sr, failure_event) ==
    [ machine_id |-> m.machine_id,
      cycle |-> c,
      day |-> day,
      day_in_cycle |-> dic,
      temperature |-> sr.temperature,
      vibration |-> sr.vibration,
      rpm |-> sr.rpm,
      load |-> sr.load,
      service_flag |-> service_flag(dic, c),
      failure_event |-> failure_event ]

\* the rest of the day: streak counters, failure decision, service flag, rows.append
DecideAndRecord ==
    /\ pc = "decide"
    /\ \E r \in RandomDraws :
         LET high == high_risk_days(failure_risk, consecutive_high_risk_days)
             faulty == fault_days(machines[mi], intermittent_fault_days)
             eff == effective_risk(failure_risk, high, faulty)
             failed == failure_today(failure_occurred, eff, r)
             failure_event == IF failed THEN 1 ELSE 0
         IN  /\ anomalies + Deviation(r, NominalRandom) <= MaxAnomalies
             /\ anomalies' = anomalies + Deviation(r, NominalRandom)
             /\ drawn' = [drawn EXCEPT !.decide = r]
             /\ consecutive_high_risk_days' = high
             /\ intermittent_fault_days' = faulty
             /\ failure_occurred' = (failure_occurred \/ failed)
             /\ machines' = [machines EXCEPT
                               ![mi].previous_failures = @ + failure_event]
             /\ rows' = Append(rows, record(machines[mi], cycle, global_day,
                                            day_in_cycle, sensor_readings, failure_event))
    /\ IF day_in_cycle < cfg.DAYS_PER_CYCLE
       THEN /\ day_in_cycle' = day_in_cycle + 1 /\ pc' = "load" /\ UNCHANGED <<cycle, mi>>
       ELSE /\ cycle' = Advance(cycle, mi).cycle
            /\ mi' = Advance(cycle, mi).mi
            /\ pc' = Advance(cycle, mi).pc
            /\ UNCHANGED day_in_cycle
    /\ UNCHANGED <<cfg, csv, current_load, sensor_readings, failure_risk, maintained, unit>>

\* df = pd.DataFrame(rows); df.to_csv(OUTPUT_FILE, index=False)
WriteCsv ==
    /\ pc = "write"
    /\ csv' = rows
    /\ pc' = "done"
    /\ UNCHANGED <<cfg, machines, rows, cycle, mi, day_in_cycle, current_load,
                   sensor_readings, failure_risk, failure_occurred,
                   consecutive_high_risk_days, intermittent_fault_days, maintained,
                   anomalies, drawn, unit>>

Next ==
    \/ CreateMachines
    \/ BeginMachineCycle
    \/ GenerateLoad
    \/ CalculateSensorReadings
    \/ UpdateDegradation
    \/ CheckFailureRisk
    \/ DecideAndRecord
    \/ WriteCsv

Spec == Init /\ [][Next]_vars

----------------------------------------------------------------------------
(* Single calls on long-running machines.  DAYS_PER_CYCLE is unbounded, so a *)
(* machine can be any number of days into a cycle.  SpecUnit starts from a   *)
(* machine that has run the daily steps of the main loop for some days of    *)
(* cycle 1 (under calm or rough draws), optionally maintains it (the start   *)
(* of cycle 2), and then takes the four calls of one day with draws from the *)
(* whole spread of each distribution.  previous_failures, the main loop's    *)
(* own counter, is left alone.                                               *)

UnitProfiles ==
    { [ age |-> 0, quality |-> 0, wear_resistance |-> 0, base_temp |-> 0,
        base_vib |-> 0, base_rpm |-> 0, maintenance_quality |-> 0 ],
      [ age |-> 9999, quality |-> 9999, wear_resistance |-> 9999, base_temp |-> 9999,
        base_vib |-> 9999, base_rpm |-> 9999, maintenance_quality |-> 9999 ],
      [ age |-> 9999, quality |-> 0, wear_resistance |-> 0, base_temp |-> 9999,
        base_vib |-> 9999, base_rpm |-> 0, maintenance_quality |-> 0 ] }

\* the draws of every day of the run-in
Calm == [load |-> NominalLoad, sensor |-> NominalSensor, risk |-> NominalRisk]

Rough ==
    [ load |-> [NominalLoad EXCEPT !.r1 = 0, !.us = 9999, !.z = 40],
      sensor |-> [NominalSensor EXCEPT !.rb1 = 0, !.rb2 = 0, !.rb3 = 0,
                                       !.zt = 20, !.zv = 20, !.zr = -20, !.z_rpm = -20],
      risk |-> [NominalRisk EXCEPT !.ra = 0] ]

RunIns == {Calm, Rough}

RunInDays == {0, 150, 600, 1500, 3000}

\* one day of the main loop's calls on machine m (lines 318-321)
RunInDay(m, day, a) ==
    LET load == generate_load_pattern(day, day, a.load)
        sr == calculate_sensor_readings(m, day, load, a.sensor)
    IN  check_failure_risk(update_degradation(m, sr, day), sr, day, a.risk).machine

RECURSIVE RunIn(_, _, _, _)
\* days from..to of cycle 1 (the test on m has the first half of the days
\* evaluated before the second half starts)
RunIn(m, from, to, a) ==
    IF from > to \/ m.machine_id < 1 THEN m
    ELSE IF from = to THEN RunInDay(m, from, a)
    ELSE LET mid == (from + to) \div 2
         IN  RunIn(RunIn(m, from, mid, a), mid + 1, to, a)

UnitLoadDraws ==
    { [z |-> z, um |-> u, r1 |-> r1, us |-> u, r2 |-> r2, ud |-> u] :
        z \in {-40, 40}, u \in {0, 9999}, r1 \in {0, 9999}, r2 \in {0, 9999} }

UnitSensorDraws ==
    { [ z_rpm |-> z, rb1 |-> rb[1], ub1 |-> u, rb2 |-> rb[2], ub2 |-> u,
        rb3 |-> rb[2], ub3 |-> u, zt |-> z, zv |-> z, zr |-> z,
        rg1 |-> rg[1], ug1 |-> u, rg2 |-> rg[2], ug2 |-> u ] :
        z \in {-40, 0, 40}, rb \in {<<0, 0>>, <<9999, 9999>>}, u \in {0, 9999},
        rg \in [1 .. 2 -> {0, 9999}] }

UnitRiskDraws == RiskDraws

UnitEffectDraws == {0, 9999}

\* the main loop's locals on the day: failure_occurred and the two streak
\* counters as the days before left them
UnitLocals ==
    { [failure_occurred |-> FALSE, consecutive_high_risk_days |-> 0,
       intermittent_fault_days |-> 0],
      [failure_occurred |-> FALSE, consecutive_high_risk_days |-> 2,
       intermittent_fault_days |-> 5],
      [failure_occurred |-> TRUE, consecutive_high_risk_days |-> 1,
       intermittent_fault_days |-> 0] }

InitUnit ==
    /\ cfg = [NUM_MACHINES |-> 1, DAYS_PER_CYCLE |-> 1, NUM_CYCLES |-> 1]
    /\ pc = "unit"
    /\ machines = << >>
    /\ rows = << >>
    /\ csv = "none"
    /\ cycle = 0
    /\ mi = 0
    /\ day_in_cycle = 0
    /\ current_load = 0
    /\ sensor_readings = NoReading
    /\ failure_risk = 0
    /\ failure_occurred = FALSE
    /\ consecutive_high_risk_days = 0
    /\ intermittent_fault_days = 0
    /\ maintained = << >>
    /\ anomalies = 0
    /\ drawn = NoDraws
    /\ \E p \in UnitProfiles, a \in RunIns, n \in RunInDays :
         LET m == RunIn(MachineBehavior(1, p), 1, n, a)
         IN  unit = [ op |-> "start", at |-> "maintain", machine |-> m, before |-> m,
                      cycle |-> 1, day |-> n + 1, day_in_cycle |-> n + 1,
                      load |-> 0, sr |-> NoReading, risk |-> 0,
                      locals |-> CHOOSE l \in UnitLocals : TRUE, d |-> NoDraws,
                      row |-> record(m, 0, 0, 0, NoReading, 0) ]

UnitUnchanged ==
    UNCHANGED <<cfg, pc, machines, rows, csv, cycle, mi, day_in_cycle, current_load,
                sensor_readings, failure_risk, failure_occurred,
                consecutive_high_risk_days, intermittent_fault_days, maintained,
                anomalies, drawn>>

\* the cycle ends here: apply_maintenance, and the day is day 1 of the next cycle
UnitMaintain ==
    /\ pc = "unit" /\ unit.at = "maintain" /\ unit.day > 1
    /\ \E u \in UnitEffectDraws :
         unit' = [unit EXCEPT !.op = "apply_maintenance", !.at = "load",
                              !.before = unit.machine,
                              !.machine = apply_maintenance(unit.machine, u),
                              !.cycle = 2, !.day_in_cycle = 1, !.d.effect = u]
    /\ UnitUnchanged

\* the cycle goes on: no maintenance before this day
UnitSkipMaintain ==
    /\ pc = "unit" /\ unit.at = "maintain"
    /\ unit' = [unit EXCEPT !.op = "none", !.at = "load"]
    /\ UnitUnchanged

UnitLoad ==
    /\ pc = "unit" /\ unit.at = "load"
    /\ \E d \in UnitLoadDraws :
         unit' = [unit EXCEPT !.op = "generate_load_pattern", !.at = "sensor",
                              !.before = unit.machine,
                              !.load = generate_load_pattern(unit.day, unit.day_in_cycle, d)]
    /\ UnitUnchanged

UnitSensor ==
    /\ pc = "unit" /\ unit.at = "sensor"
    /\ \E d \in UnitSensorDraws :
         unit' = [unit EXCEPT !.op = "calculate_sensor_readings", !.at = "degrade",
                              !.before = unit.machine,
                              !.sr = calculate_sensor_readings(unit.machine,
                                         unit.day_in_cycle, unit.load, d)]
    /\ UnitUnchanged

UnitDegrade ==
    /\ pc = "unit" /\ unit.at = "degrade"
    /\ unit' = [unit EXCEPT !.op = "update_degradation", !.at = "risk",
                            !.before = unit.machine,
                            !.machine = update_degradation(unit.machine, unit.sr,
                                                           unit.day_in_cycle)]
    /\ UnitUnchanged

UnitRisk ==
    /\ pc = "unit" /\ unit.at = "risk"
    /\ \E d \in UnitRiskDraws :
         LET r == check_failure_risk(unit.machine, unit.sr, unit.day_in_cycle, d)
         IN  unit' = [unit EXCEPT !.op = "check_failure_risk", !.at = "decide",
                                  !.before = unit.machine, !.d.risk = d,
                                  !.machine = r.machine,
                                  !.risk = r.risk]
    /\ UnitUnchanged

\* lines 323-370 for some values of the main loop's locals
UnitDecide ==
    /\ pc = "unit" /\ unit.at = "decide"
    /\ \E l \in UnitLocals, r \in RandomDraws :
         LET high == high_risk_days(unit.risk, l.consecutive_high_risk_days)
             faulty == fault_days(unit.machine, l.intermittent_fault_days)
             eff == effective_risk(unit.risk, high, faulty)
             failed == failure_today(l.failure_occurred, eff, r)
             failure_event == IF failed THEN 1 ELSE 0
         IN  unit' = [unit EXCEPT
                 !.op = "decide", !.at = "end", !.before = unit.machine, !.d.decide = r,
                 !.machine.previous_failures = @ + failure_event,
                 !.locals = [failure_occurred |-> l.failure_occurred \/ failed,
                             consecutive_high_risk_days |-> high,
                             intermittent_fault_days |-> faulty],
                 !.row = record(unit.machine, unit.cycle, unit.day, unit.day_in_cycle,
                                unit.sr, failure_event)]
    /\ UnitUnchanged

NextUnit ==
    \/ UnitMaintain
    \/ UnitSkipMaintain
    \/ UnitLoad
    \/ UnitSensor
    \/ UnitDegrade
    \/ UnitRisk
    \/ UnitDecide

SpecUnit == InitUnit /\ [][NextUnit]_vars

----------------------------------------------------------------------------
(* Properties of the main loop (specification Spec) *)

LastRow == rows[Len(rows)]

\* the latest day of the main loop has just been decided and recorded: the
\* sensor reading, the risk, the streak counters and the machine's hidden
\* state are still those of the day of LastRow
JustRecorded ==
    /\ Len(rows) > 0
    /\ \/ pc \in {"begin", "write"}
       \/ pc = "load" /\ day_in_cycle > 1

InDay == pc \in {"load", "sensor", "degrade", "risk", "decide"}

Positive == cfg.NUM_MACHINES >= 1 /\ cfg.DAYS_PER_CYCLE >= 1 /\ cfg.NUM_CYCLES >= 1

FailureRows(id, c) ==
    { i \in 1 .. Len(rows) :
        rows[i].machine_id = id /\ rows[i].cycle = c /\ rows[i].failure_event = 1 }

\* C1: the records of one machine and one cycle hold failure_event = 1 on at
\* most one day, every record after it in the cycle has failure_event = 0, and
\* the latch failure_occurred is set exactly when the machine's current cycle
\* has recorded its failure (so it is clear again when the next cycle starts)
C1_OneFailurePerCycle ==
    /\ \A i, j \in 1 .. Len(rows) :
         ( /\ i < j
           /\ rows[i].machine_id = rows[j].machine_id
           /\ rows[i].cycle = rows[j].cycle
           /\ rows[i].failure_event = 1 ) => rows[j].failure_event = 0
    /\ InDay => (failure_occurred <=> FailureRows(machines[mi].machine_id, cycle) # {})
    /\ (InDay /\ day_in_cycle = 1 /\ pc # "load" => ~failure_occurred)

\* a day of guaranteed failure (risk 1.0) after the cycle's failure was
\* recorded: the record of the day has failure_event = 0
C1_Witness ==
    /\ JustRecorded
    /\ failure_risk = 10000
    /\ LastRow.failure_event = 0
    /\ \E i \in FailureRows(LastRow.machine_id, LastRow.cycle) : i < Len(rows)

\* C2: a record has service_flag = 1 exactly when it is day 1 of a cycle after
\* the first; a finished run of a positive configuration holds exactly one such
\* record for every machine and every cycle after the first
C2_ServiceFlag ==
    /\ \A i \in 1 .. Len(rows) :
         /\ rows[i].service_flag \in {0, 1}
         /\ rows[i].service_flag = 1 <=> (rows[i].day_in_cycle = 1 /\ rows[i].cycle > 1)
    /\ (pc = "done" /\ Positive) =>
         \A id \in 1 .. cfg.NUM_MACHINES, c \in 1 .. cfg.NUM_CYCLES :
            Cardinality({ i \in 1 .. Len(rows) :
                            /\ rows[i].machine_id = id
                            /\ rows[i].cycle = c
                            /\ rows[i].service_flag = 1 })
              = (IF c > 1 THEN 1 ELSE 0)

\* a finished run of two machines over two cycles of two days
C2_Witness ==
    /\ pc = "done"
    /\ cfg = [NUM_MACHINES |-> 2, DAYS_PER_CYCLE |-> 2, NUM_CYCLES |-> 2]
    /\ \E i \in 1 .. Len(rows) : rows[i].service_flag = 1 /\ rows[i].machine_id = 2
    /\ \E i \in 1 .. Len(rows) : rows[i].cycle = 1 /\ rows[i].day_in_cycle = 1

\* C3: the k-th record is the one of the k-th triple in cycle-major, then
\* machine, then day order, with day = (cycle-1)*D + day_in_cycle; a finished
\* run of a positive configuration holds M*C*D records, all of them written
C3_Records ==
    /\ \A k \in 1 .. Len(rows) :
         LET per_cycle == cfg.NUM_MACHINES * cfg.DAYS_PER_CYCLE
             c == (k - 1) \div per_cycle + 1
             id == ((k - 1) % per_cycle) \div cfg.DAYS_PER_CYCLE + 1
             d == ((k - 1) % cfg.DAYS_PER_CYCLE) + 1
         IN  /\ rows[k].cycle = c
             /\ rows[k].machine_id = id
             /\ rows[k].day_in_cycle = d
             /\ rows[k].day = (c - 1) * cfg.DAYS_PER_CYCLE + d
    /\ (pc \in {"write", "done"} /\ Positive) =>
         Len(rows) = cfg.NUM_MACHINES * cfg.NUM_CYCLES * cfg.DAYS_PER_CYCLE
    /\ pc = "done" => csv = rows

\* a finished run of 2 x 2 x 2 in which a failure was recorded before the last
\* day of a cycle
C3_Witness ==
    /\ pc = "done"
    /\ cfg = [NUM_MACHINES |-> 2, DAYS_PER_CYCLE |-> 2, NUM_CYCLES |-> 2]
    /\ Len(csv) = 8
    /\ \E i \in 1 .. Len(rows) : rows[i].failure_event = 1 /\ rows[i].day_in_cycle = 1

\* C6: a run whose machine count, cycle count or days-per-cycle is not
\* positive creates no machine and writes no dataset
C6_ConfigRejected ==
    ~Positive => (Len(machines) = 0 /\ pc # "done")

\* the day of LastRow was one on which the five mode risks were 0, no
\* hard-failure condition held and no random component failure was drawn:
\* only age_risk and age_risk_factor made the day's risk
AgeOnlyDay ==
    /\ JustRecorded
    /\ LET m == machines[LastRow.machine_id]
           dic == LastRow.day_in_cycle
       IN  /\ bearing_risk(m, sensor_readings) = 0
           /\ motor_risk(m, sensor_readings) = 0
           /\ lubrication_risk(m, sensor_readings) = 0
           /\ stress_risk(m, dic) = 0
           /\ combined_risk(m, sensor_readings) = 0
           /\ ~(\/ sensor_readings.temperature > 85000
                \/ sensor_readings.vibration > 35000
                \/ m.bearing_wear > 950000
                \/ m.lubrication_quality < 50000)
    /\ drawn.risk.rf >= 2

\* the effective risk of the day of LastRow
LastEffectiveRisk ==
    effective_risk(failure_risk, consecutive_high_risk_days, intermittent_fault_days)

\* C9 as stated: on a day where only age contributes to the risk the driver
\* does not set failure_event = 1
C9_NeverFailsFromAge ==
    AgeOnlyDay => LastRow.failure_event = 0

\* C9 amended: on a day where only age contributes to the risk, the risk is at
\* most 0.276 (age_risk 0.18 times age_risk_factor 1.533 at 8 years) and the
\* effective risk stays at or below 0.85, so the failure is never forced; failure_event = 1 on such a day comes only
\* from the probabilistic draw random() < effective_risk * 0.1
C9_AgeNeverForcesFailure ==
    AgeOnlyDay =>
        /\ failure_risk <= 2760
        /\ LastEffectiveRisk <= 8500
        /\ LastRow.failure_event = 1 => 10 * drawn.decide < LastEffectiveRisk

\* an old machine with no degradation-driven risk fails on a day of its first
\* cycle by the probabilistic draw alone
C9_Witness ==
    /\ AgeOnlyDay
    /\ machines[LastRow.machine_id].age > 500
    /\ failure_risk > 0
    /\ LastRow.failure_event = 1
    /\ 10 * drawn.decide < LastEffectiveRisk

\* a failure was recorded for the machine of LastRow earlier in its cycle
FailedEarlier ==
    \E i \in FailureRows(LastRow.machine_id, LastRow.cycle) : i < Len(rows)

\* C12: on a day on which the machine has not yet failed in the cycle, with
\* the effective risk computed from the counters as updated for the day, an
\* effective risk above 0.85 records failure_event = 1 whatever the random
\* draw, and an effective risk of 0 records failure_event = 0
C12_FailureDecision ==
    (JustRecorded /\ ~FailedEarlier) =>
        /\ LastEffectiveRisk > 8500 => LastRow.failure_event = 1
        /\ LastEffectiveRisk = 0 => LastRow.failure_event = 0
        /\ LastRow.failure_event = 1 =>
             (LastEffectiveRisk > 8500 \/ 10 * drawn.decide < LastEffectiveRisk)

\* a day of risk below 0.85 whose effective risk the streak lifts above 0.85:
\* the failure is recorded although the random draw is as high as can be
C12_Witness ==
    /\ JustRecorded /\ ~FailedEarlier
    /\ failure_risk <= 8500
    /\ LastEffectiveRisk > 8500
    /\ drawn.decide = NominalRandom
    /\ LastRow.failure_event = 1

\* a day of effective risk 0 with the random draw at 0.0: no failure
C12_WitnessZero ==
    /\ JustRecorded /\ ~FailedEarlier
    /\ LastEffectiveRisk = 0
    /\ drawn.decide = 0
    /\ LastRow.failure_event = 0

\* the failure_event = 1 records emitted so far for machine id
FailuresOf(id) ==
    { i \in 1 .. Len(rows) : rows[i].machine_id = id /\ rows[i].failure_event = 1 }

\* the cycles machine i has started: the main loop is in cycle `cycle` and has
\* reached machine mi of it
CyclesStarted(i) ==
    IF pc = "create" THEN 0
    ELSE IF pc = "begin" THEN (IF i < mi THEN cycle ELSE Max(0, cycle - 1))
    ELSE IF i <= mi THEN cycle ELSE Max(0, cycle - 1)

\* C13: previous_failures of a machine is the number of failure_event = 1
\* records emitted so far for it, never more than the cycles the machine has
\* started, so the fleet total is at most machines * cycles; a step changes it
\* only by recording a failure, and then by exactly 1
C13_PreviousFailures ==
    /\ \A i \in 1 .. Len(machines) :
         /\ machines[i].previous_failures = Cardinality(FailuresOf(i))
         /\ machines[i].previous_failures <= CyclesStarted(i)
    /\ Positive =>
         Cardinality({ i \in 1 .. Len(rows) : rows[i].failure_event = 1 })
           <= cfg.NUM_MACHINES * cfg.NUM_CYCLES

\* C13, step by step: previous_failures of a machine changes only in the step
\* that appends a failure_event = 1 record of that machine, and by exactly 1
C13_PreviousFailuresSteps ==
    [][ \A i \in 1 .. Len(machines) :
          LET grown == Len(rows') = Len(rows) + 1
                         /\ rows'[Len(rows')].machine_id = i
                         /\ rows'[Len(rows')].failure_event = 1
          IN  machines'[i].previous_failures =
                 machines[i].previous_failures + (IF grown THEN 1 ELSE 0) ]_vars

\* a machine that failed in each of two cycles, maintained in between
C13_Witness ==
    /\ pc = "done"
    /\ cfg.NUM_CYCLES >= 2
    /\ \E i \in 1 .. Len(machines) :
         /\ machines[i].previous_failures = 2
         /\ maintained[i] >= 1

\* C14: apply_maintenance has run on a machine once for every cycle after the
\* first that the machine has started, and not otherwise: never in cycle 1,
\* never in the middle of a cycle, and before the day-1 load of the cycle; a
\* finished run of C cycles has maintained every machine C - 1 times
C14_MaintenanceOncePerCycle ==
    /\ \A i \in 1 .. Len(machines) :
         /\ maintained[i] = Max(0, CyclesStarted(i) - 1)
         /\ machines[i].cycles_since_service = CyclesStarted(i)
    /\ (InDay /\ cycle = 1) =>
         /\ maintained[mi] = 0
         /\ machines[mi].last_maintenance_effectiveness = 10000
    /\ (pc = "load" /\ day_in_cycle = 1 /\ cycle > 1) =>
         /\ maintained[mi] = cycle - 1
         /\ machines[mi].last_maintenance_effectiveness =
               (machines[mi].maintenance_quality * Uniform(8000, 10000, drawn.effect))
                   \div 100
    /\ (pc = "done" /\ Positive) =>
         \A i \in 1 .. cfg.NUM_MACHINES : maintained[i] = cfg.NUM_CYCLES - 1

\* a finished run of two machines over three cycles: two maintenances each
C14_Witness ==
    /\ pc = "done"
    /\ cfg.NUM_MACHINES = 2 /\ cfg.NUM_CYCLES = 3 /\ cfg.DAYS_PER_CYCLE >= 1
    /\ maintained = <<2, 2>>

\* intermittent_fault_active of machine i is set (an attribute that does not
\* exist yet counts as false)
FaultActive(i) == machines[i].intermittent_fault_active = "True"

\* C15: intermittent_fault_active is false or unset for a machine that has not
\* started a cycle and false when day 1 of a cycle after the first begins; it
\* becomes true only in the check_failure_risk step and false only in the
\* apply_maintenance of a cycle head, so once set it stays set for the rest of
\* the cycle, also after a failure was recorded
C15_IntermittentFault ==
    /\ [](\A i \in 1 .. Len(machines) : CyclesStarted(i) = 0 => ~FaultActive(i))
    /\ []((pc = "load" /\ day_in_cycle = 1 /\ cycle > 1) => ~FaultActive(mi))
    /\ [][ \A i \in 1 .. Len(machines) :
             /\ (~FaultActive(i) /\ FaultActive(i)') => (pc = "risk" /\ i = mi)
             /\ (FaultActive(i) /\ ~FaultActive(i)') =>
                   (pc = "begin" /\ cycle > 1 /\ i = mi) ]_vars

\* a day after the cycle's failure on which the fault, set earlier in the
\* cycle, is still active
C15_Witness ==
    /\ JustRecorded /\ FailedEarlier
    /\ FaultActive(LastRow.machine_id)
    /\ intermittent_fault_days >= 2

\* machine m with the hidden state a new machine has
Fresh(m) ==
    [m EXCEPT !.bearing_wear = 0, !.motor_degradation = 0,
              !.lubrication_quality = 1000000, !.stress_accumulation = 0,
              !.total_operating_hours = 0, !.intermittent_fault_active = "unset"]

\* machine m without regard to intermittent_fault_active
HiddenState(m) == [m EXCEPT !.intermittent_fault_active = "unset"]

\* the steps of a machine-day in the order of the main loop
DayOrder ==
    /\ pc = "load" => pc' = "sensor"
    /\ pc = "sensor" => pc' = "degrade"
    /\ pc = "degrade" => pc' = "risk"
    /\ pc = "risk" => pc' = "decide"
    /\ pc = "decide" => (pc' \in {"load", "begin", "write"} /\ Len(rows') = Len(rows) + 1)

\* C16: each machine-day runs load, sensor reading, degradation update,
\* failure risk, failure decision, record in that order; the sensor reading is
\* computed from the day's load and the hidden state before the day's
\* degradation update (total_operating_hours counts the updates made), the
\* update uses that reading, check_failure_risk is evaluated on the updated
\* state with the same reading, and the record holds that reading
C16_DailyStepOrder ==
    /\ [][DayOrder]_vars
    /\ [](pc \in {"load", "sensor", "degrade"} =>
            machines[mi].total_operating_hours = 24 * (global_day - 1))
    /\ [](pc = "degrade" =>
            sensor_readings = calculate_sensor_readings(machines[mi], day_in_cycle,
                                                        current_load, drawn.sensor))
    /\ [](pc \in {"risk", "decide"} =>
            machines[mi].total_operating_hours = 24 * global_day)
    /\ []((pc \in {"risk", "decide"} /\ cycle = 1 /\ day_in_cycle = 1) =>
            HiddenState(machines[mi])
              = HiddenState(update_degradation(Fresh(machines[mi]), sensor_readings, 1)))
    /\ [](pc = "decide" =>
            failure_risk = check_failure_risk(machines[mi], sensor_readings,
                                              day_in_cycle, drawn.risk).risk)
    /\ [](JustRecorded =>
            /\ LastRow.temperature = sensor_readings.temperature
            /\ LastRow.vibration = sensor_readings.vibration
            /\ LastRow.rpm = sensor_readings.rpm
            /\ LastRow.load = sensor_readings.load)

\* the record of a day whose degradation update changed the hidden state
\* after the reading was taken and whose risk came from the updated state
C16_Witness ==
    /\ JustRecorded
    /\ LastRow.day_in_cycle >= 2
    /\ LastRow.temperature = sensor_readings.temperature
    /\ machines[LastRow.machine_id].total_operating_hours = 24 * LastRow.day
    /\ machines[LastRow.machine_id].bearing_wear > 0
    /\ failure_risk > 0

\* the steps of a day after the cycle's failure: each call is made as on any
\* other day, the streak counters are updated, the record has failure_event 0
AfterFailureSteps ==
    failure_occurred =>
        /\ pc = "load" => (pc' = "sensor" /\ current_load' >= 3500)
        /\ pc = "sensor" => (pc' = "degrade" /\ sensor_readings'.load = Round(current_load, 10))
        /\ pc = "degrade" =>
             /\ pc' = "risk"
             /\ machines'[mi] = update_degradation(machines[mi], sensor_readings, day_in_cycle)
             /\ machines'[mi].total_operating_hours = machines[mi].total_operating_hours + 24
        /\ pc = "risk" =>
             /\ pc' = "decide"
             /\ failure_risk' = check_failure_risk(machines[mi], sensor_readings,
                                                   day_in_cycle, drawn'.risk).risk
        /\ pc = "decide" =>
             /\ consecutive_high_risk_days'
                  = (IF failure_risk > 6000 THEN consecutive_high_risk_days + 1 ELSE 0)
             /\ intermittent_fault_days'
                  = (IF FaultActive(mi) THEN intermittent_fault_days + 1 ELSE 0)
             /\ Len(rows') = Len(rows) + 1
             /\ rows'[Len(rows')].failure_event = 0
             /\ rows'[Len(rows')].day_in_cycle = day_in_cycle
             /\ maintained' = maintained
             /\ machines' = machines
             /\ (IF day_in_cycle < cfg.DAYS_PER_CYCLE
                 THEN pc' = "load" /\ day_in_cycle' = day_in_cycle + 1 /\ failure_occurred'
                 ELSE pc' \in {"begin", "write"})

\* C18: after a machine's failure was recorded in a cycle every remaining day
\* of the cycle is simulated: load and sensor reading are generated,
\* update_degradation and check_failure_risk are applied (the hidden state and
\* total_operating_hours advance, the streak counters are updated) and a
\* record with failure_event = 0 is emitted; the machine is not maintained
\* before the next cycle boundary and its cycle ends on its last day
C18_ContinuesAfterFailure ==
    /\ [][AfterFailureSteps]_vars
    /\ []((JustRecorded /\ FailedEarlier) =>
            /\ LastRow.failure_event = 0
            /\ machines[LastRow.machine_id].total_operating_hours = 24 * LastRow.day
            /\ maintained[LastRow.machine_id] = LastRow.cycle - 1)
    /\ []((Len(rows) > 0 /\ pc \in {"begin", "write"}) =>
            LastRow.day_in_cycle = cfg.DAYS_PER_CYCLE)

\* the second day after the cycle's failure: recorded without failure, the
\* machine more worn than new and its hours those of every day so far
C18_Witness ==
    /\ JustRecorded
    /\ \E i \in FailureRows(LastRow.machine_id, LastRow.cycle) : i + 2 <= Len(rows)
    /\ LastRow.failure_event = 0
    /\ machines[LastRow.machine_id].total_operating_hours = 24 * LastRow.day
    /\ machines[LastRow.machine_id].lubrication_quality < 1000000
    /\ consecutive_high_risk_days >= 1

----------------------------------------------------------------------------
(* Properties of one day's calls (specification SpecUnit) *)

\* C4: every record has 40 <= temperature <= 95, 0.02 <= vibration <= 0.5,
\* rpm >= 1380, 35 <= load <= 98 and both flags in {0, 1}, whatever the hidden
\* state, the load and the noise, fault-burst and glitch draws; the load
\* pattern and the sensor reading are in those ranges as soon as computed
C4_RecordRanges ==
    /\ unit.op = "decide" =>
         /\ unit.row.temperature >= 40000 /\ unit.row.temperature <= 95000
         /\ unit.row.vibration >= 2000 /\ unit.row.vibration <= 50000
         /\ unit.row.rpm >= 138000
         /\ unit.row.load >= 3500 /\ unit.row.load <= 9800
         /\ unit.row.failure_event \in {0, 1}
         /\ unit.row.service_flag \in {0, 1}
    /\ unit.op = "generate_load_pattern" => (unit.load >= 3500 /\ unit.load <= 9800)
    /\ unit.op = "calculate_sensor_readings" =>
         /\ unit.sr.temperature >= 40000 /\ unit.sr.temperature <= 95000
         /\ unit.sr.vibration >= 2000 /\ unit.sr.vibration <= 50000
         /\ unit.sr.rpm >= 138000
         /\ unit.sr.load >= 3500 /\ unit.sr.load <= 9800

\* a record on which the temperature, the vibration and the load sit on their
\* upper limits at once
C4_Witness ==
    /\ unit.op = "decide"
    /\ unit.row.temperature = 95000
    /\ unit.row.vibration = 50000
    /\ unit.row.load = 9800

\* C5: the hidden state of a machine satisfies 0 <= bearing_wear <= 1,
\* 0 <= motor_degradation <= 1 and 0.1 <= lubrication_quality <= 1 after
\* creation, after every update_degradation and after every apply_maintenance
\* (and after every other call of the day)
C5_HiddenStateBounds ==
    /\ unit.machine.bearing_wear >= 0 /\ unit.machine.bearing_wear <= 1000000
    /\ unit.machine.motor_degradation >= 0 /\ unit.machine.motor_degradation <= 1000000
    /\ unit.machine.lubrication_quality >= 100000
    /\ unit.machine.lubrication_quality <= 1000000

\* update_degradation has run on a machine whose wear and motor degradation
\* are at the cap and whose lubrication is at the floor
C5_Witness ==
    /\ unit.op = "update_degradation"
    /\ unit.machine.bearing_wear = 1000000
    /\ unit.machine.motor_degradation = 1000000
    /\ unit.machine.lubrication_quality = 100000

\* C7: every call of the day other than apply_maintenance leaves bearing_wear,
\* motor_degradation and stress_accumulation at least, and lubrication_quality
\* at most, what they were before the call
C7_MonotoneBetweenMaintenance ==
    unit.op # "apply_maintenance" =>
        /\ unit.machine.bearing_wear >= unit.before.bearing_wear
        /\ unit.machine.motor_degradation >= unit.before.motor_degradation
        /\ unit.machine.stress_accumulation >= unit.before.stress_accumulation
        /\ unit.machine.lubrication_quality <= unit.before.lubrication_quality

\* the first update_degradation after a maintenance, on a day the motor runs
\* below its base rpm: all four quantities move
C7_Witness ==
    /\ unit.op = "update_degradation"
    /\ unit.cycle = 2
    /\ unit.sr.rpm < unit.machine.base_rpm
    /\ unit.machine.bearing_wear > unit.before.bearing_wear
    /\ unit.machine.motor_degradation > unit.before.motor_degradation
    /\ unit.machine.stress_accumulation > unit.before.stress_accumulation
    /\ unit.machine.lubrication_quality < unit.before.lubrication_quality

\* C8: check_failure_risk returns 1.0 whenever temperature > 85 or
\* vibration > 0.35 or bearing_wear > 0.95 or lubrication_quality < 0.05
C8_HardFailure ==
    ( /\ unit.op = "check_failure_risk"
      /\ \/ unit.sr.temperature > 85000
         \/ unit.sr.vibration > 35000
         \/ unit.before.bearing_wear > 950000
         \/ unit.before.lubrication_quality < 50000 )
    => unit.risk = 10000

\* the bearing_wear override alone: wear above 0.95 on a day of temperature
\* below 85, vibration below 0.35, lubrication at least 0.05, no random
\* component failure and a combined risk below 1.0
C8_Witness ==
    /\ unit.op = "check_failure_risk"
    /\ unit.before.bearing_wear > 950000
    /\ unit.sr.temperature < 85000
    /\ unit.sr.vibration < 35000
    /\ unit.before.lubrication_quality >= 50000
    /\ unit.d.risk.rf >= 2
    /\ combined_failure_risk(unit.before, unit.sr, unit.day_in_cycle) < 10000
    /\ unit.risk = 10000

\* C11: the anomaly surge and the anomaly dip of generate_load_pattern are
\* decided independently, so a call on which both random() tests succeed
\* applies both: its load is below the load of the same call with the surge
\* alone (unless the surge alone already sits on the upper limit of 98)
C11_SurgeAndDipIndependent ==
    unit.op = "generate_load_pattern" =>
        \A d \in UnitLoadDraws :
            (d.r1 < 1000 /\ d.r2 < 800) =>
                LET both == generate_load_pattern(unit.day, unit.day_in_cycle, d)
                    surge_only == generate_load_pattern(unit.day, unit.day_in_cycle,
                                                        [d EXCEPT !.r2 = 9999])
                IN  both < surge_only \/ surge_only = 9800

\* the risk check_failure_risk returns when the bearing mode contributes b,
\* no hard-failure condition holds and no random component failure is drawn
RiskWithBearing(b, m, sr, dic) ==
    LET p1 == 10000 - b
        p2 == (p1 * (10000 - motor_risk(m, sr))) \div 10000
        p3 == (p2 * (10000 - lubrication_risk(m, sr))) \div 10000
        p4 == (p3 * (10000 - stress_risk(m, dic))) \div 10000
        p5 == (p4 * (10000 - combined_risk(m, sr))) \div 10000
        p6 == (p5 * (10000 - age_risk(m))) \div 10000
    IN  Min(10000, ((10000 - p6) * age_risk_factor(m)) \div 10000)

\* the call of the day met no hard-failure condition and drew no random
\* component failure
NoOverride ==
    /\ unit.sr.temperature <= 85000
    /\ unit.sr.vibration <= 35000
    /\ unit.before.bearing_wear <= 950000
    /\ unit.before.lubrication_quality >= 50000
    /\ unit.d.risk.rf >= 2

\* C17: the bearing-mode risk is the value of the first matching branch in the
\* order (vibration > 0.18 and bearing_wear > 0.5: 0.6; vibration > 0.25: 0.8;
\* bearing_wear > 0.8: 0.7; otherwise 0), not the maximum: with
\* vibration > 0.25 and bearing_wear > 0.5 the returned risk is the one of a
\* bearing risk of 0.6
C17_FirstMatchingBranch ==
    (unit.op = "check_failure_risk" /\ NoOverride) =>
        LET v == unit.sr.vibration
            w == unit.before.bearing_wear
            first == IF v > 18000 /\ w > 500000 THEN 6000
                     ELSE IF v > 25000 THEN 8000
                     ELSE IF w > 800000 THEN 7000
                     ELSE 0
        IN  /\ unit.risk = RiskWithBearing(first, unit.before, unit.sr, unit.day_in_cycle)
            /\ (v > 25000 /\ w > 500000) =>
                 unit.risk = RiskWithBearing(6000, unit.before, unit.sr, unit.day_in_cycle)

\* vibration above 0.25 on a machine of bearing wear above 0.8: all three
\* branches match and the risk returned, below 1.0, is that of 0.6
C17_Witness ==
    /\ unit.op = "check_failure_risk" /\ NoOverride
    /\ unit.sr.vibration > 25000
    /\ unit.before.bearing_wear > 800000
    /\ unit.risk < 10000
    /\ unit.risk = RiskWithBearing(6000, unit.before, unit.sr, unit.day_in_cycle)
    /\ unit.risk < RiskWithBearing(8000, unit.before, unit.sr, unit.day_in_cycle)

\* C19: generate_load_pattern and calculate_sensor_readings leave every field
\* of the machine unchanged; check_failure_risk leaves every field unchanged
\* except intermittent_fault_active, which it may turn from false (or not yet
\* existing) to true and never from true to false
C19_FrameEffects ==
    /\ unit.op \in {"generate_load_pattern", "calculate_sensor_readings"} =>
         unit.machine = unit.before
    /\ unit.op = "check_failure_risk" =>
         /\ HiddenState(unit.machine) = HiddenState(unit.before)
         /\ unit.before.intermittent_fault_active = "True" =>
              unit.machine.intermittent_fault_active = "True"
         /\ unit.machine.intermittent_fault_active \in {"False", "True"}

\* check_failure_risk on a worn machine, with risk 1.0: it sets the
\* intermittent fault and changes nothing else
C19_Witness ==
    /\ unit.op = "check_failure_risk"
    /\ unit.before.intermittent_fault_active = "False"
    /\ unit.machine.intermittent_fault_active = "True"
    /\ unit.risk = 10000
    /\ unit.before.bearing_wear > 0
    /\ unit.machine.previous_failures = unit.before.previous_failures
    /\ HiddenState(unit.machine) = HiddenState(unit.before)

\* C20: when the day is at least the third in a row of risk above 0.6, a
\* failure has been recorded in the cycle no later than that day; and a day of
\* risk 1.0 on which the machine had not yet failed in the cycle records
\* failure_event = 1 (failure_occurred after the day, with failure_event = 0,
\* means the failure was recorded on an earlier day)
C20_StreakForcesFailure ==
    unit.op = "decide" =>
        /\ unit.locals.consecutive_high_risk_days >= 3 => unit.locals.failure_occurred
        /\ unit.risk = 10000 => unit.locals.failure_occurred
        /\ unit.row.failure_event = 1 => unit.locals.failure_occurred

\* the third day in a row of a risk just above 0.6, too low to force the
\* failure on the two days before (1.4 times the risk is at most 0.85): the
\* failure is recorded on the day although the random draw is as high as can be
C20_Witness ==
    /\ unit.op = "decide"
    /\ unit.locals.consecutive_high_risk_days = 3
    /\ unit.risk > 6000
    /\ (unit.risk * 14) \div 10 <= 8500
    /\ unit.d.decide = NominalRandom
    /\ unit.row.failure_event = 1

\* C21: no state has lubrication_quality below 0.1, so in check_failure_risk
\* the branch "lubrication_quality < 0.1: 0.8" and the hard-failure condition
\* "lubrication_quality < 0.05" are never met: the lubrication risk is 0 or
\* 0.5, and a risk of 1.0 not owed to the random component failure or to the
\* combined risks comes from temperature, vibration or bearing wear
C21_LubricationFloor ==
    /\ unit.machine.lubrication_quality >= 100000
    /\ unit.before.lubrication_quality >= 100000
    /\ unit.op = "check_failure_risk" =>
         /\ lubrication_risk(unit.before, unit.sr) \in {0, 5000}
         /\ lubrication_risk(unit.before, unit.sr) = 5000 <=>
              (unit.before.lubrication_quality < 300000 /\ unit.sr.temperature > 70000)
         /\ ( /\ unit.risk = 10000
              /\ unit.d.risk.rf >= 2
              /\ combined_failure_risk(unit.before, unit.sr, unit.day_in_cycle) < 10000 )
            => \/ unit.sr.temperature > 85000
               \/ unit.sr.vibration > 35000
               \/ unit.before.bearing_wear > 950000

\* check_failure_risk on a machine whose lubrication sits on the floor of 0.1,
\* on a day no warmer than 70: the lubrication risk is 0, not 0.8, and the
\* floor alone does not make the risk 1.0
C21_Witness ==
    /\ unit.op = "check_failure_risk"
    /\ unit.before.lubrication_quality = 100000
    /\ unit.sr.temperature <= 70000
    /\ lubrication_risk(unit.before, unit.sr) = 0
    /\ unit.risk < 10000

====
